---- MODULE Spec2Model ----
(***************************************************************************)
(* Contact book (contact_book.py) and its command handlers (main.py).      *)
(*                                                                         *)
(* Strings are sequences of one-character strings, so that strip(),        *)
(* isdigit() and len() are computed as Python computes them.  A character  *)
(* outside ASCII is written by its code point, e.g. "U+0663".              *)
(* A birthday's raw text DD.MM.YYYY is held as its three numeric tokens    *)
(* <<dd, mm, yyyy>>; a date is a record [year, month, day].                *)
(* An optional value (Optional[...] / None) is a sequence of length 0 or 1.*)
(***************************************************************************)
EXTENDS Integers, Sequences, FiniteSets, TLC

VARIABLES
    data,   \* AddressBook.data: the dict, as the sequence of its entries in insertion order
    last    \* the call whose outcome the caller holds: its name, arguments, the dict
            \* before it, and its outcome; Idle once the caller is done with it

vars == <<data, last>>

----------------------------------------------------------------------------
(* Bounds of the model *)

\* a record's phone list is not grown beyond this length
MaxPhones == 2
\* longest raw string handed to Phone() in SpecPhone
MaxLen == 11
\* datetime.today() ranges over the days of the years FirstYear .. FirstYear + YearSpan - 1
FirstYear == 2023
YearSpan == 3

----------------------------------------------------------------------------
(* Characters and strings *)

AsciiDigits == {"0", "1", "2", "3", "4", "5", "6", "7", "8", "9"}
\* characters outside ASCII for which str.isdigit() is true:
\* ARABIC-INDIC DIGIT THREE (category Nd) and SUPERSCRIPT TWO (Numeric_Type=Digit)
UnicodeDigits == {"U+0663", "U+00B2"}
Whitespace == {" ", "\t", "\n"}

\* str.isdigit(): non-empty and every character is a digit character
isdigit(s) == s # <<>> /\ \A i \in 1..Len(s) : s[i] \in AsciiDigits \cup UnicodeDigits

RECURSIVE lstrip(_)
lstrip(s) == IF s # <<>> /\ Head(s) \in Whitespace THEN lstrip(Tail(s)) ELSE s

RECURSIVE rstrip(_)
rstrip(s) == IF s # <<>> /\ s[Len(s)] \in Whitespace
             THEN rstrip(SubSeq(s, 1, Len(s) - 1)) ELSE s

\* str.strip()
strip(s) == rstrip(lstrip(s))

----------------------------------------------------------------------------
(* Outcomes: a returned value, or the exception raised (class and message) *)

Returned(v) == [exc |-> "", msg |-> "", ret |-> <<v>>]
Raised(cls, m) == [exc |-> cls, msg |-> m, ret |-> <<>>]

\* Name.__init__: ValueError("Ім'я контакту не може бути порожнім.")
ErrNameEmpty == Raised("ValueError", "contact name must not be empty")
\* Phone.__init__: ValueError("Номер телефону повинен складатися з 10 цифр.")
ErrPhoneFormat == Raised("ValueError", "phone number must consist of 10 digits")
\* Birthday.__init__: ValueError("Invalid date format. Use DD.MM.YYYY")
ErrDateFormat == Raised("ValueError", "Invalid date format. Use DD.MM.YYYY")
\* Record.remove_phone: ValueError("Номер телефону не знайдено.")
ErrPhoneNotFound == Raised("ValueError", "phone number not found")
\* Record.edit_phone: ValueError("Номер телефону для редагування не знайдено.")
ErrEditNotFound == Raised("ValueError", "phone number to edit not found")
\* AddressBook.delete: KeyError("Контакт не знайдено.")
ErrContactNotFound == Raised("KeyError", "contact not found")
\* add_contact / change_contact / add_birthday: IndexError on too few arguments
ErrTooFewArgs == Raised("IndexError", "not enough arguments")
\* date.replace(year=...) of 29 February onto a non-leap year
ErrDayOutOfRange == Raised("ValueError", "day is out of range for month")

\* the error taxonomy: format failures, and lookups of an absent key
ValidationError == {ErrNameEmpty, ErrPhoneFormat, ErrDateFormat}
NotFoundError == {ErrPhoneNotFound, ErrEditNotFound, ErrContactNotFound}

----------------------------------------------------------------------------
(* Field values *)

\* the guard without its whitespace-only test
NameOk_NoStrip(value) == value # <<>>

\* Name.__init__: the guard, and the value stored
NameOk(value) == value # <<>> /\ strip(value) # <<>>
Name(value) == strip(value)

\* Phone.__init__: the guard (the value is stored unchanged)
PhoneLen == 10
PhoneOk(value) == isdigit(value) /\ Len(value) = PhoneLen
Phone(value) == IF PhoneOk(value) THEN Returned(value) ELSE ErrPhoneFormat

----------------------------------------------------------------------------
(* Calendar (datetime.date) *)

IsLeap(y) == y % 4 = 0 /\ (y % 100 # 0 \/ y % 400 = 0)

DaysInMonth(y, m) ==
    IF m = 2 THEN (IF IsLeap(y) THEN 29 ELSE 28)
    ELSE IF m \in {4, 6, 9, 11} THEN 30 ELSE 31

Date(y, m, d) == [year |-> y, month |-> m, day |-> d]

ValidDate(y, m, d) ==
    /\ y \in 1..9999
    /\ m \in 1..12
    /\ d \in 1..DaysInMonth(y, m)

RECURSIVE DaysBeforeMonth(_, _)
DaysBeforeMonth(y, m) ==
    IF m = 1 THEN 0 ELSE DaysBeforeMonth(y, m - 1) + DaysInMonth(y, m - 1)

DaysBeforeYear(y) ==
    (y - 1) * 365 + ((y - 1) \div 4) - ((y - 1) \div 100) + ((y - 1) \div 400)

\* date.toordinal(): 1 January of year 1 is day 1
ToOrdinal(dt) == DaysBeforeYear(dt.year) + DaysBeforeMonth(dt.year, dt.month) + dt.day

\* date.weekday(): Monday is 0, Saturday 5, Sunday 6
Weekday(dt) == (ToOrdinal(dt) + 6) % 7

\* date + timedelta(days=1)
NextDay(dt) ==
    IF dt.day < DaysInMonth(dt.year, dt.month) THEN Date(dt.year, dt.month, dt.day + 1)
    ELSE IF dt.month < 12 THEN Date(dt.year, dt.month + 1, 1)
    ELSE Date(dt.year + 1, 1, 1)

\* date + timedelta(days=k), k >= 0
RECURSIVE PlusDays(_, _)
PlusDays(dt, k) == IF k = 0 THEN dt ELSE PlusDays(NextDay(dt), k - 1)

\* Birthday.__init__: strptime(value, "%d.%m.%Y") succeeds on a real calendar date
BirthdayOk(value) == ValidDate(value[3], value[2], value[1])
Birthday(value) == [value |-> value, date |-> Date(value[3], value[2], value[1])]

----------------------------------------------------------------------------
(* Record *)

\* Record.__init__ (after Name accepted the name)
Record(name) == [name |-> Name(name), phones |-> <<>>, birthday |-> <<>>]

\* Record.find_phone: the position of the first phone equal to phone_number, 0 for None
find_phone(phones, phone_number) ==
    IF \E i \in 1..Len(phones) : phones[i] = phone_number
    THEN CHOOSE i \in 1..Len(phones) :
            /\ phones[i] = phone_number
            /\ \A j \in 1..(i - 1) : phones[j] # phone_number
    ELSE 0

RemoveAt(s, i) == SubSeq(s, 1, i - 1) \o SubSeq(s, i + 1, Len(s))

\* add_phone that skips a number the record already holds
add_phone_Dedup(record, phone_number) ==
    IF ~PhoneOk(phone_number) THEN [record |-> record, result |-> ErrPhoneFormat]
    ELSE IF find_phone(record.phones, phone_number) # 0
    THEN [record |-> record, result |-> Returned("None")]
    ELSE [record |-> [record EXCEPT !.phones = Append(@, phone_number)],
          result |-> Returned("None")]

\* Record.add_phone
add_phone(record, phone_number) ==
    IF PhoneOk(phone_number)
    THEN [record |-> [record EXCEPT !.phones = Append(@, phone_number)],
          result |-> Returned("None")]
    ELSE [record |-> record, result |-> ErrPhoneFormat]

\* remove_phone that passes over an absent number in silence
remove_phone_Silent(record, phone_number) ==
    LET i == find_phone(record.phones, phone_number)
    IN  IF i # 0
        THEN [record |-> [record EXCEPT !.phones = RemoveAt(@, i)],
              result |-> Returned("None")]
        ELSE [record |-> record, result |-> Returned("None")]

\* Record.remove_phone
remove_phone(record, phone_number) ==
    LET i == find_phone(record.phones, phone_number)
    IN  IF i # 0
        THEN [record |-> [record EXCEPT !.phones = RemoveAt(@, i)],
              result |-> Returned("None")]
        ELSE [record |-> record, result |-> ErrPhoneNotFound]

\* edit_phone that assigns the slot before the new number is validated
edit_phone_AssignFirst(record, old_phone_number, new_phone_number) ==
    LET i == find_phone(record.phones, old_phone_number)
    IN  IF i = 0 THEN [record |-> record, result |-> ErrEditNotFound]
        ELSE [record |-> [record EXCEPT !.phones[i] = new_phone_number],
              result |-> IF PhoneOk(new_phone_number) THEN Returned("None")
                         ELSE ErrPhoneFormat]

\* Record.edit_phone: Phone(new_phone_number) is built before the slot is assigned
edit_phone(record, old_phone_number, new_phone_number) ==
    LET i == find_phone(record.phones, old_phone_number)
    IN  IF i = 0 THEN [record |-> record, result |-> ErrEditNotFound]
        ELSE IF ~PhoneOk(new_phone_number)
        THEN [record |-> record, result |-> ErrPhoneFormat]
        ELSE [record |-> [record EXCEPT !.phones[i] = new_phone_number],
              result |-> Returned("None")]

\* Record.add_birthday
record_add_birthday(record, birthday) ==
    IF BirthdayOk(birthday)
    THEN [record |-> [record EXCEPT !.birthday = <<Birthday(birthday)>>],
          result |-> Returned("None")]
    ELSE [record |-> record, result |-> ErrDateFormat]

----------------------------------------------------------------------------
(* AddressBook: d is the dict, a sequence of entries [key, record] *)

Keys(d) == {d[i].key : i \in 1..Len(d)}

\* position of the entry under key name, 0 when the dict has none
Slot(d, name) ==
    IF \E i \in 1..Len(d) : d[i].key = name
    THEN CHOOSE i \in 1..Len(d) : d[i].key = name
    ELSE 0

\* AddressBook.find: self.data.get(name), None as <<>>
find(d, name) == IF Slot(d, name) = 0 THEN <<>> ELSE <<d[Slot(d, name)].record>>

\* dict.__setitem__: an existing key keeps its place, a new key goes last
SetItem(d, key, record) ==
    IF Slot(d, key) # 0
    THEN [d EXCEPT ![Slot(d, key)] = [key |-> key, record |-> record]]
    ELSE Append(d, [key |-> key, record |-> record])

\* AddressBook.add_record
add_record(d, record) == SetItem(d, record.name, record)

\* AddressBook.delete
delete(d, name) ==
    IF Slot(d, name) # 0
    THEN [data |-> RemoveAt(d, Slot(d, name)), result |-> Returned("None")]
    ELSE [data |-> d, result |-> ErrContactNotFound]

\* date.replace(year=y): ValueError when the month/day does not exist in year y
Replace(dt, y) ==
    IF ValidDate(y, dt.month, dt.day) THEN <<Date(y, dt.month, dt.day)>> ELSE <<>>

\* birthday_this_year, <<>> when one of the two replace() calls raises
BirthdayThisYear(birthday_date, today) ==
    LET this == Replace(birthday_date, today.year)
    IN  IF this = <<>> THEN <<>>
        ELSE IF ToOrdinal(this[1]) < ToOrdinal(today)
        THEN Replace(birthday_date, today.year + 1)
        ELSE this

WindowDays == 7

\* the weekend shift with Saturday moved by one day only
CongratulationDate_SaturdayPlusOne(birthday_this_year) ==
    IF Weekday(birthday_this_year) \in {5, 6} THEN PlusDays(birthday_this_year, 1)
    ELSE birthday_this_year

\* the weekend shift: Saturday (5) + 2 days, Sunday (6) + 1 day
CongratulationDate(birthday_this_year) ==
    IF Weekday(birthday_this_year) = 5 THEN PlusDays(birthday_this_year, 2)
    ELSE IF Weekday(birthday_this_year) = 6 THEN PlusDays(birthday_this_year, 1)
    ELSE birthday_this_year

\* date.strftime("%d.%m.%Y"), as the three numeric tokens of the text
strftime(dt) == <<dt.day, dt.month, dt.year>>

\* the loop of get_upcoming_birthdays from entry i on; acc is upcoming_birthdays so far
RECURSIVE UpcomingFrom(_, _, _, _)
UpcomingFrom(d, i, today, acc) ==
    IF i > Len(d) THEN Returned(acc)
    ELSE LET record == d[i].record
         IN  IF record.birthday = <<>> THEN UpcomingFrom(d, i + 1, today, acc)
             ELSE LET this == BirthdayThisYear(record.birthday[1].date, today)
                  IN  IF this = <<>> THEN ErrDayOutOfRange
                      ELSE LET days_until_birthday == ToOrdinal(this[1]) - ToOrdinal(today)
                           IN  IF 0 <= days_until_birthday /\ days_until_birthday <= WindowDays
                               THEN UpcomingFrom(d, i + 1, today,
                                        Append(acc,
                                            [name |-> record.name,
                                             congratulation_date |->
                                                 strftime(CongratulationDate(this[1]))]))
                               ELSE UpcomingFrom(d, i + 1, today, acc)

\* AddressBook.get_upcoming_birthdays, with today = datetime.today().date()
get_upcoming_birthdays(d, today) == UpcomingFrom(d, 1, today, <<>>)

----------------------------------------------------------------------------
(* Command handlers of main.py, each under @input_error: an exception raised *)
(* inside is caught by the decorator after the handler's effects so far      *)

\* add_contact
add_contact(args, d) ==
    IF Len(args) < 2 THEN [data |-> d, result |-> ErrTooFewArgs]
    ELSE LET name == args[1]
             phone == args[2]
             found == find(d, name)
         IN  IF found = <<>> /\ ~NameOk(name)
             THEN [data |-> d, result |-> ErrNameEmpty]
             ELSE LET record == IF found = <<>> THEN Record(name) ELSE found[1]
                      d1 == IF found = <<>> THEN add_record(d, record) ELSE d
                      message == IF found = <<>> THEN "Contact added." ELSE "Contact updated."
                      added == add_phone(record, phone)
                      \* record is the object held in the dict: what add_phone did to it
                      \* stays, also when add_phone raised
                      d2 == [d1 EXCEPT ![Slot(d1, record.name)].record = added.record]
                  IN  IF phone = <<>> THEN [data |-> d1, result |-> Returned(message)]
                      ELSE IF added.result.exc # ""
                      THEN [data |-> d2, result |-> added.result]
                      ELSE [data |-> d2, result |-> Returned(message)]

\* change_contact
change_contact(args, d) ==
    IF Len(args) < 3 THEN [data |-> d, result |-> ErrTooFewArgs]
    ELSE LET name == args[1]
             found == find(d, name)
         IN  IF found = <<>> THEN [data |-> d, result |-> Returned("Contact not found.")]
             ELSE LET edited == edit_phone(found[1], args[2], args[3])
                      d1 == [d EXCEPT ![Slot(d, name)].record = edited.record]
                  IN  IF edited.result.exc # ""
                      THEN [data |-> d1, result |-> edited.result]
                      ELSE [data |-> d1, result |-> Returned("Contact updated.")]

\* add_birthday
add_birthday(args, d) ==
    IF Len(args) < 2 THEN [data |-> d, result |-> ErrTooFewArgs]
    ELSE LET name == args[1]
             found == find(d, name)
         IN  IF found = <<>> THEN [data |-> d, result |-> Returned("Contact not found.")]
             ELSE LET set == record_add_birthday(found[1], args[2])
                      d1 == [d EXCEPT ![Slot(d, name)].record = set.record]
                  IN  IF set.result.exc # ""
                      THEN [data |-> d1, result |-> set.result]
                      ELSE [data |-> d1, result |-> Returned("Birthday added.")]

----------------------------------------------------------------------------
(* Inputs *)

John == <<"J", "o", "h", "n">>
Jane == <<"J", "a", "n", "e">>
Ann == <<"A", "n", "n">>

\* "1234567890", "5555555555", "123", and ten ARABIC-INDIC DIGIT THREE
Phone1 == <<"1", "2", "3", "4", "5", "6", "7", "8", "9", "0">>
Phone2 == <<"5", "5", "5", "5", "5", "5", "5", "5", "5", "5">>
Phone123 == <<"1", "2", "3">>
PhoneArabic == [i \in 1..PhoneLen |-> "U+0663"]

\* names: "John", "Jane", " John", "", "   "
NameArgs == {John, Jane, <<" ">> \o John, <<>>, <<" ", " ", " ">>}
LookupArgs == {John, Jane, <<" ">> \o John}
PhoneArgs == {Phone1, Phone2, Phone123, <<>>, PhoneArabic}
OldPhoneArgs == {Phone1, Phone2}
\* phones given to a record before it is added: none, John's two, a malformed one
PhoneListArgs == {<<>>, <<Phone1, Phone2>>, <<Phone123>>}
\* "01.11.1990" and "32.13.2000"
BirthdayArgs == {<<1, 11, 1990>>, <<32, 13, 2000>>}

PhonesBounded(d) == \A i \in 1..Len(d) : Len(d[i].record.phones) <= MaxPhones

----------------------------------------------------------------------------
(* Specification of the directory and its commands *)

Call(op, args, result) == [op |-> op, args |-> args, before |-> data, result |-> result]

\* the caller is between two calls (main's loop is at input("Enter a command: "))
Idle == [op |-> "idle", args |-> <<>>, before |-> <<>>, result |-> Returned("None")]

Init ==
    /\ data = <<>>
    /\ last = Idle

\* the outcome is printed and the loop is back at its prompt
Return ==
    /\ last.op # "idle"
    /\ last' = Idle
    /\ UNCHANGED data

\* print(add_contact(args, book))
AddContact(names, phones) ==
    \E args \in {<<name, phone>> : name \in names, phone \in phones}
                    \cup {<<name>> : name \in names} :
        LET r == add_contact(args, data)
        IN  /\ last.op = "idle"
            /\ PhonesBounded(r.data)
            /\ data' = r.data
            /\ last' = Call("add_contact", args, r.result)

\* print(change_contact(args, book))
ChangeContact(names, olds, phones) ==
    \E args \in {<<name, old, new>> : name \in names, old \in olds, new \in phones}
                    \cup {<<name, old>> : name \in names, old \in olds} :
        LET r == change_contact(args, data)
        IN  /\ last.op = "idle"
            /\ data' = r.data
            /\ last' = Call("change_contact", args, r.result)

\* print(add_birthday(args, book))
AddBirthday(names, birthdays) ==
    \E args \in {<<name, birthday>> : name \in names, birthday \in birthdays}
                    \cup {<<name>> : name \in names} :
        LET r == add_birthday(args, data)
        IN  /\ last.op = "idle"
            /\ data' = r.data
            /\ last' = Call("add_birthday", args, r.result)

\* record.add_phone(p) for each p of phones in turn, up to the first that raises
RECURSIVE AddPhones(_, _)
AddPhones(record, phones) ==
    IF phones = <<>> THEN [record |-> record, result |-> Returned("None")]
    ELSE LET added == add_phone(record, Head(phones))
         IN  IF added.result.exc # "" THEN added
             ELSE AddPhones(added.record, Tail(phones))

\* record = Record(name); record.add_phone(...); book.add_record(record)
\* an exception ends the caller's sequence before add_record is reached
AddRecord(names, phoneLists) ==
    \E name \in names, phones \in phoneLists :
        /\ last.op = "idle"
        /\ IF ~NameOk(name)
           THEN /\ data' = data
                /\ last' = Call("add_record", <<name>>, ErrNameEmpty)
           ELSE LET built == AddPhones(Record(name), phones)
                IN  IF built.result.exc # ""
                    THEN /\ data' = data
                         /\ last' = Call("add_record", <<name>>, built.result)
                    ELSE /\ data' = add_record(data, built.record)
                         /\ last' = Call("add_record", <<name>>, Returned("None"))

\* book.delete(name)
Delete(names) ==
    \E name \in names :
        LET r == delete(data, name)
        IN  /\ last.op = "idle"
            /\ data' = r.data
            /\ last' = Call("delete", <<name>>, r.result)

\* book.find(name)
Find(names) ==
    \E name \in names :
        /\ last.op = "idle"
        /\ data' = data
        /\ last' = Call("find", <<name>>, Returned(find(data, name)))

\* record = book.find(name); if record: record.remove_phone(phone)
RemovePhone(names, phones) ==
    \E name \in names, phone \in phones :
        /\ last.op = "idle"
        /\ find(data, name) # <<>>
        /\ LET r == remove_phone(find(data, name)[1], phone)
           IN  /\ data' = [data EXCEPT ![Slot(data, name)].record = r.record]
               /\ last' = Call("remove_phone", <<name, phone>>, r.result)

Next ==
    \/ AddContact(NameArgs, PhoneArgs)
    \/ ChangeContact(LookupArgs, OldPhoneArgs, PhoneArgs)
    \/ AddBirthday(LookupArgs, BirthdayArgs)
    \/ AddRecord(NameArgs, PhoneListArgs)
    \/ Delete(NameArgs)
    \/ Find(NameArgs)
    \/ RemovePhone(LookupArgs, OldPhoneArgs)
    \/ Return

Spec == Init /\ [][Next]_vars

----------------------------------------------------------------------------
(* Specification of the birthday window: a directory of records with       *)
(* birthdays, queried on any day of the years FirstYear ..                  *)

\* "01.11.1990", "03.11.1990", "05.11.1985", "02.01.1985", "29.02.2000",
\* and the rejected "29.02.2001", "32.13.2000"
WindowBirthdayArgs ==
    {<<1, 11, 1990>>, <<3, 11, 1990>>, <<5, 11, 1985>>, <<2, 1, 1985>>, <<29, 2, 2000>>,
     <<29, 2, 2001>>, <<32, 13, 2000>>}
WindowNameArgs == {John, Ann}

\* the values datetime.today().date() takes
Todays ==
    {dt \in {Date(y, m, d) : y \in FirstYear..(FirstYear + YearSpan - 1),
                             m \in 1..12, d \in 1..31} :
        ValidDate(dt.year, dt.month, dt.day)}

\* book.get_upcoming_birthdays()
Birthdays(todays) ==
    \E today \in todays :
        /\ last.op = "idle"
        /\ data' = data
        /\ last' = Call("get_upcoming_birthdays", <<today>>, get_upcoming_birthdays(data, today))

NextWindow ==
    \/ AddRecord(WindowNameArgs, {<<>>})
    \/ AddBirthday(WindowNameArgs, WindowBirthdayArgs)
    \/ Birthdays(Todays)
    \/ Return

SpecWindow == Init /\ [][NextWindow]_vars

----------------------------------------------------------------------------
(* Specification of Phone(): the constructor applied to raw strings        *)

PhoneAlphabet == {"0", "7", "a", "-", " ", "U+0663", "U+00B2"}

\* every string of one repeated character, up to MaxLen long, and each of them
\* with one character replaced
PhoneInputs ==
    {[i \in 1..n |-> a] : n \in 0..MaxLen, a \in PhoneAlphabet}
    \cup UNION {{[[i \in 1..n |-> a] EXCEPT ![k] = b] : k \in 1..n}
                    : n \in 1..MaxLen, a \in PhoneAlphabet, b \in PhoneAlphabet}

\* Phone(value)
PhoneCall(values) ==
    \E value \in values :
        /\ last.op = "idle"
        /\ data' = data
        /\ last' = Call("Phone", <<value>>, Phone(value))

NextPhone ==
    \/ PhoneCall(PhoneInputs)
    \/ Return

SpecPhone == Init /\ [][NextPhone]_vars

----------------------------------------------------------------------------
(* Properties *)

\* the record stored under key in d
RecordOf(d, key) == d[Slot(d, key)].record

IsPrefix(s, t) == Len(s) <= Len(t) /\ SubSeq(t, 1, Len(s)) = s

Holds(phones, phone) == \E i \in 1..Len(phones) : phones[i] = phone

\* C1: add_contact with a name that is not in the directory and a phone that fails
\* phone validation (one that is handed to Phone and rejected, such as "123") fails
\* with a validation error and leaves the directory as it was.
C1_FailedAddLeavesDirectory ==
    (/\ last.op = "add_contact"
     /\ Len(last.args) >= 2
     /\ find(last.before, last.args[1]) = <<>>
     /\ last.args[2] # <<>>
     /\ ~PhoneOk(last.args[2]))
    => (/\ last.result \in ValidationError
        /\ data = last.before)

C3_AbsentKeyNotFound ==
    /\ (/\ last.op = "remove_phone"
        /\ ~Holds(RecordOf(last.before, last.args[1]).phones, last.args[2]))
       => (/\ last.result = ErrPhoneNotFound
           /\ last.result \in NotFoundError
           /\ last.result \notin ValidationError
           /\ RecordOf(data, last.args[1]).phones = RecordOf(last.before, last.args[1]).phones
           /\ data = last.before)
    /\ (/\ last.op = "delete"
        /\ last.args[1] \notin Keys(last.before))
       => (/\ last.result = ErrContactNotFound
           /\ last.result \in NotFoundError
           /\ last.result \notin ValidationError
           /\ data = last.before)

\* C3 witness: remove_phone of an absent number on a record that holds another one
C3_Witness ==
    /\ last.op = "remove_phone"
    /\ RecordOf(last.before, last.args[1]).phones # <<>>
    /\ ~Holds(RecordOf(last.before, last.args[1]).phones, last.args[2])
    /\ last.result = ErrPhoneNotFound
    /\ Len(data) = 2

\* C4: every entry's key is the name stored in its record, that name is not empty
\* after trimming, and no two entries have the same key.
C4_KeyIsName ==
    /\ \A i \in 1..Len(data) :
        /\ data[i].key = data[i].record.name
        /\ strip(data[i].record.name) # <<>>
    /\ \A i, j \in 1..Len(data) : data[i].key = data[j].key => i = j

\* C4 witness: add_contact with the name " John" succeeded in a directory of two entries
C4_Witness ==
    /\ last.op = "add_contact"
    /\ last.args[1] = <<" ">> \o John
    /\ last.result.exc = ""
    /\ Len(data) = 2

C10_AddContactKeepsStored ==
    last.op = "add_contact"
    => \A i \in 1..Len(last.before) :
        LET key == last.before[i].key
        IN  /\ key \in Keys(data)
            /\ IsPrefix(last.before[i].record.phones, RecordOf(data, key).phones)
            /\ RecordOf(data, key).birthday = last.before[i].record.birthday

----------------------------------------------------------------------------
(* Properties of the birthday window *)

\* the days of the window [today, today + WindowDays] on which the month and day of
\* a birthday fall
Occurrences(birthday_date, today) ==
    {k \in 0..WindowDays :
        /\ PlusDays(today, k).month = birthday_date.month
        /\ PlusDays(today, k).day = birthday_date.day}

InWindow(record, today) ==
    /\ record.birthday # <<>>
    /\ Occurrences(record.birthday[1].date, today) # {}

\* the names of the records from entry i on that have a birthday in the window
RECURSIVE DueNames(_, _, _)
DueNames(d, i, today) ==
    IF i > Len(d) THEN <<>>
    ELSE IF InWindow(d[i].record, today)
    THEN <<d[i].record.name>> \o DueNames(d, i + 1, today)
    ELSE DueNames(d, i + 1, today)

EntryNames(entries) == [i \in 1..Len(entries) |-> entries[i].name]

\* the entries the caller of get_upcoming_birthdays got: none when it raised
EntriesGot == IF last.result.exc = "" THEN last.result.ret[1] ELSE <<>>

\* C5: on every day, get_upcoming_birthdays includes a record exactly when it has a
\* birthday whose next occurrence is 0 to 7 days after today, and the entries come in
\* the directory's order.
C5_WindowMembership ==
    last.op = "get_upcoming_birthdays"
    => EntryNames(EntriesGot) = DueNames(data, 1, last.args[1])

\* C6: the congratulation date of every entry returned is the birthday's occurrence in
\* the window when that is a Monday to Friday, two days later when it is a Saturday and
\* one day later when it is a Sunday: never a weekend day, never before the birthday,
\* and a Monday whenever it was moved.
C6_CongratulationOnWeekday ==
    (last.op = "get_upcoming_birthdays" /\ last.result.exc = "")
    => \A n \in 1..Len(last.result.ret[1]) :
        LET entry == last.result.ret[1][n]
            text == entry.congratulation_date
            congratulation == Date(text[3], text[2], text[1])
            today == last.args[1]
            birthdays == {PlusDays(today, k) :
                            k \in Occurrences(RecordOf(data, entry.name).birthday[1].date, today)}
        IN  /\ ValidDate(congratulation.year, congratulation.month, congratulation.day)
            /\ Weekday(congratulation) \notin {5, 6}
            /\ \E birthday \in birthdays :
                /\ ToOrdinal(congratulation) >= ToOrdinal(birthday)
                /\ Weekday(birthday) \in 0..4 => congratulation = birthday
                /\ Weekday(birthday) = 5 =>
                        /\ ToOrdinal(congratulation) = ToOrdinal(birthday) + 2
                        /\ Weekday(congratulation) = 0
                /\ Weekday(birthday) = 6 =>
                        /\ ToOrdinal(congratulation) = ToOrdinal(birthday) + 1
                        /\ Weekday(congratulation) = 0

\* C6 witness: two entries returned, one of a birthday that falls on a Saturday and is
\* congratulated two days later
C6_Witness ==
    /\ last.op = "get_upcoming_birthdays"
    /\ last.result.exc = ""
    /\ Len(last.result.ret[1]) = 2
    /\ \E n \in 1..2 :
        \E k \in Occurrences(RecordOf(data, last.result.ret[1][n].name).birthday[1].date,
                             last.args[1]) :
            /\ Weekday(PlusDays(last.args[1], k)) = 5
            /\ last.result.ret[1][n].congratulation_date
                    = strftime(PlusDays(last.args[1], k + 2))

\* C7: with a record whose birthday is 29 February in the directory, the call completes
\* without an error on every day, and the other records due in the window are returned.
C7_LeapDayResolves ==
    (/\ last.op = "get_upcoming_birthdays"
     /\ \E i \in 1..Len(data) :
            /\ data[i].record.birthday # <<>>
            /\ data[i].record.birthday[1].date.month = 2
            /\ data[i].record.birthday[1].date.day = 29)
    => /\ last.result.exc = ""
       /\ \A i \in 1..Len(data) :
            InWindow(data[i].record, last.args[1])
            => \E n \in 1..Len(last.result.ret[1]) :
                    last.result.ret[1][n].name = data[i].record.name

----------------------------------------------------------------------------
(* Properties of Phone() *)

\* C8: Phone(s) succeeds exactly when s is 10 characters long and each is one of the
\* ASCII digits 0-9, and then stores s unchanged; on any other string it fails with
\* the validation error.
C8_PhoneAcceptsTenAsciiDigits ==
    last.op = "Phone"
    => LET s == last.args[1]
       IN  IF Len(s) = 10 /\ \A i \in 1..Len(s) : s[i] \in AsciiDigits
           THEN last.result = Returned(s)
           ELSE last.result \in ValidationError

====
